---- MODULE Spec2Model ----
(***************************************************************************)
(* Model of planetarium/models.py: the relational records of a planetarium *)
(* booking backend (domes, shows, sessions, reservations, tickets) and the *)
(* ticket validation that Ticket.save runs before persisting.              *)
(*                                                                         *)
(* The database is the state.  One action per operation on it.  A          *)
(* Ticket.save is modelled twice over the same operators: as one atomic    *)
(* step (a sequential request) and as two steps, full_clean followed by    *)
(* the write, between which other requests may run (concurrent requests).  *)
(* What the framework does inside full_clean and super().save (uniqueness  *)
(* validation, the store's constraints, cascades) follows Django's         *)
(* documented behaviour for the declarations in models.py.                 *)
(***************************************************************************)
EXTENDS Integers, FiniteSets, Sequences, TLC

\* ------------------------------------------------------------------ bounds
MaxDim == 2
MaxDomes == 2
MaxShows == 1
MaxSessions == 2
MaxReservations == 1
MaxTickets == 2

\* The two concurrent requests of the hazard described for Ticket.save.
Clients == {"a", "b"}

\* Values a caller may pass for a dimension of a dome, and for row / seat.
DimInputs == (0 - 1) .. MaxDim
SeatInputs == 0 .. (MaxDim + 1)

NoPk == 0
NoReq == [pk |-> 0 - 1]
NoOp == [op |-> "none"]

VARIABLES
    domes,            \* id -> [rows, seats_in_row]       (planetarium_dome table)
    nextDome,         \* next auto id
    shows,            \* set of ids                       (astronomy_show table)
    nextShow,
    sessions,         \* id -> [astronomy_show, planetarium_dome]
    nextSession,
    reservations,     \* set of ids                       (reservation table)
    nextReservation,
    tickets,          \* id -> [row, seat, show_session, reservation]
    nextTicket,
    inflight,         \* client -> NoReq or the instance that passed full_clean
    lastOp            \* the last operation and what it returned or raised

vars == <<domes, nextDome, shows, nextShow, sessions, nextSession,
          reservations, nextReservation, tickets, nextTicket, inflight, lastOp>>

catalogVars == <<domes, nextDome, shows, nextShow, sessions, nextSession,
                 reservations, nextReservation>>

\* ------------------------------------------------------------ PlanetariumDome

\* models.PositiveIntegerField: accepts 0 and above.
PositiveIntegerField(v) == v >= 0

\* Faulty variant of capacity (the sum instead of the product); C8 must tell.
capacity_sum(dome) == dome.rows + dome.seats_in_row
\* PlanetariumDome.capacity
capacity(dome) == dome.rows * dome.seats_in_row

\* ------------------------------------------------------------------- Ticket

Min(S) == CHOOSE x \in S : \A y \in S : x <= y

\* Faulty variant of validate_ticket (range from 0); C2 must tell.
validate_ticket_from_zero(row, seat, planetarium_dome) ==
    LET attrs == << <<row, "row", "rows">>, <<seat, "seat", "seats_in_row">> >>
        failing == {i \in 1..2 :
                      ~(0 <= attrs[i][1] /\ attrs[i][1] <= planetarium_dome[attrs[i][3]])}
    IN  IF failing = {} THEN {}
        ELSE LET i == Min(failing)
             IN  {[field |-> attrs[i][2], kind |-> "range", dome_attr |-> attrs[i][3],
                   lo |-> 1, hi |-> planetarium_dome[attrs[i][3]]]}

\* Faulty variant of validate_ticket (seat visited before row); C7 must tell.
validate_ticket_seat_first(row, seat, planetarium_dome) ==
    LET attrs == << <<seat, "seat", "seats_in_row">>, <<row, "row", "rows">> >>
        failing == {i \in 1..2 :
                      ~(1 <= attrs[i][1] /\ attrs[i][1] <= planetarium_dome[attrs[i][3]])}
    IN  IF failing = {} THEN {}
        ELSE LET i == Min(failing)
             IN  {[field |-> attrs[i][2], kind |-> "range", dome_attr |-> attrs[i][3],
                   lo |-> 1, hi |-> planetarium_dome[attrs[i][3]]]}

\* Ticket.validate_ticket: the errors raised (empty when it returns normally).
\* The loop visits row then seat and raises at the first value out of range.
validate_ticket(row, seat, planetarium_dome) ==
    LET attrs == << <<row, "row", "rows">>, <<seat, "seat", "seats_in_row">> >>
        failing == {i \in 1..2 :
                      ~(1 <= attrs[i][1] /\ attrs[i][1] <= planetarium_dome[attrs[i][3]])}
    IN  IF failing = {} THEN {}
        ELSE LET i == Min(failing)
             IN  {[field |-> attrs[i][2], kind |-> "range", dome_attr |-> attrs[i][3],
                   lo |-> 1, hi |-> planetarium_dome[attrs[i][3]]]}

\* Ticket.clean: validate against the dome of the ticket's session.
clean(t) == validate_ticket(t.row, t.seat, domes[sessions[t.show_session].planetarium_dome])

\* Faulty variant of unique_together (the session left out); C10 must tell.
unique_together_seat_only == {"row", "seat"}
\* Ticket.Meta.unique_together: the fields of the uniqueness constraint.
unique_together == {"show_session", "row", "seat"}

SameOn(fields, t, u) == \A f \in fields : t[f] = u[f]

\* The rows of the ticket table that hold the constrained values of t,
\* t's own row excepted.
Duplicates(t, tk) ==
    {id \in DOMAIN tk : id # t.pk /\ SameOn(unique_together, t, tk[id])}

\* Model.validate_unique as full_clean calls it: a uniqueness check is skipped
\* when one of its fields already failed validation.
validate_unique(t, exclude) ==
    IF unique_together \cap exclude # {} THEN {}
    ELSE IF Duplicates(t, tickets) # {}
         THEN {[field |-> "__all__", kind |-> "unique"]}
         ELSE {}

\* Faulty variant of full_clean (save without validation); C4 must tell.
full_clean_skipped(t) == {}
\* Model.full_clean as Ticket.save calls it: clean, then validate_unique on
\* the fields that passed; the errors of both are raised together.
full_clean(t) ==
    LET errors == clean(t)
    IN  errors \cup validate_unique(t, {e.field : e \in errors})

\* Faulty variant of unique_constraint (no constraint in the store); C1 must
\* tell.
unique_constraint_off(t) == TRUE
\* The store's own checks when a row is written: the unique constraint of
\* Ticket.Meta and the two foreign keys.
unique_constraint(t) == Duplicates(t, tickets) = {}

foreign_keys(t) == t.show_session \in DOMAIN sessions /\ t.reservation \in reservations

Row(t) == [row |-> t.row, seat |-> t.seat,
           show_session |-> t.show_session, reservation |-> t.reservation]

\* id the row is written under: its own, or the next auto id.
PkFor(t) == IF t.pk = NoPk THEN nextTicket ELSE t.pk

Put(f, k, v) == [x \in DOMAIN f \cup {k} |-> IF x = k THEN v ELSE f[x]]
Drop(f, ks) == [x \in DOMAIN f \ ks |-> f[x]]

\* on_delete=CASCADE of ShowSession.astronomy_show / planetarium_dome: the
\* sessions that go with shows or domes.
SessionsOfShows(ss) == {s \in DOMAIN sessions : sessions[s].astronomy_show \in ss}
SessionsOfDomes(ds) == {s \in DOMAIN sessions : sessions[s].planetarium_dome \in ds}
\* Faulty variant of cascade (nothing follows a deletion); C6 must tell.
cascade_none(goneSessions, goneReservations) == {}
\* on_delete=CASCADE of Ticket.show_session / reservation: the tickets that go
\* with sessions or reservations.
cascade(goneSessions, goneReservations) ==
    {t \in DOMAIN tickets : \/ tickets[t].show_session \in goneSessions
                            \/ tickets[t].reservation \in goneReservations}

\* ------------------------------------------------------------------- state

Init ==
    /\ domes = << >>
    /\ nextDome = 1
    /\ shows = {}
    /\ nextShow = 1
    /\ sessions = << >>
    /\ nextSession = 1
    /\ reservations = {}
    /\ nextReservation = 1
    /\ tickets = << >>
    /\ nextTicket = 1
    /\ inflight = [c \in Clients |-> NoReq]
    /\ lastOp = NoOp


\* A request is served when the response of the one before has been returned.
Idle == lastOp = NoOp

Return ==
    /\ ~Idle
    /\ lastOp' = NoOp
    /\ UNCHANGED <<catalogVars, tickets, nextTicket, inflight>>

\* -------------------------------------------------------- catalog operations

\* PlanetariumDome.objects.create(rows=..., seats_in_row=...)
CreateDome(rows, seats_in_row) ==
    /\ Idle
    /\ nextDome <= MaxDomes
    /\ IF PositiveIntegerField(rows) /\ PositiveIntegerField(seats_in_row)
       THEN /\ domes' = Put(domes, nextDome, [rows |-> rows, seats_in_row |-> seats_in_row])
            /\ nextDome' = nextDome + 1
            /\ lastOp' = [op |-> "create_dome", result |-> "ok"]
       ELSE /\ UNCHANGED <<domes, nextDome>>
            /\ lastOp' = [op |-> "create_dome", result |-> "error"]
    /\ UNCHANGED <<shows, nextShow, sessions, nextSession, reservations,
                   nextReservation, tickets, nextTicket, inflight>>

\* dome.rows = ...; dome.seats_in_row = ...; dome.save()
UpdateDome(d, rows, seats_in_row) ==
    /\ Idle
    /\ d \in DOMAIN domes
    /\ IF PositiveIntegerField(rows) /\ PositiveIntegerField(seats_in_row)
       THEN /\ domes' = Put(domes, d, [rows |-> rows, seats_in_row |-> seats_in_row])
            /\ lastOp' = [op |-> "update_dome", result |-> "ok"]
       ELSE /\ UNCHANGED domes
            /\ lastOp' = [op |-> "update_dome", result |-> "error"]
    /\ UNCHANGED <<nextDome, shows, nextShow, sessions, nextSession, reservations,
                   nextReservation, tickets, nextTicket, inflight>>

\* dome.capacity
ReadCapacity(d) ==
    /\ Idle
    /\ d \in DOMAIN domes
    /\ lastOp' = [op |-> "capacity", dome |-> d, value |-> capacity(domes[d])]
    /\ UNCHANGED <<catalogVars, tickets, nextTicket, inflight>>

\* dome.delete(): its sessions go with it, and their tickets
DeleteDome(d) ==
    /\ Idle
    /\ d \in DOMAIN domes
    /\ LET goneSessions == SessionsOfDomes({d})
       IN  /\ domes' = Drop(domes, {d})
           /\ sessions' = Drop(sessions, goneSessions)
           /\ tickets' = Drop(tickets, cascade(goneSessions, {}))
    /\ lastOp' = [op |-> "delete_dome", id |-> d]
    /\ UNCHANGED <<nextDome, shows, nextShow, nextSession, reservations,
                   nextReservation, nextTicket, inflight>>

\* AstronomyShow.objects.create(...)
CreateShow ==
    /\ Idle
    /\ nextShow <= MaxShows
    /\ shows' = shows \cup {nextShow}
    /\ nextShow' = nextShow + 1
    /\ lastOp' = [op |-> "create_show"]
    /\ UNCHANGED <<domes, nextDome, sessions, nextSession, reservations,
                   nextReservation, tickets, nextTicket, inflight>>

\* show.delete(): its sessions go with it, and their tickets
DeleteShow(a) ==
    /\ Idle
    /\ a \in shows
    /\ LET goneSessions == SessionsOfShows({a})
       IN  /\ shows' = shows \ {a}
           /\ sessions' = Drop(sessions, goneSessions)
           /\ tickets' = Drop(tickets, cascade(goneSessions, {}))
    /\ lastOp' = [op |-> "delete_show", id |-> a]
    /\ UNCHANGED <<domes, nextDome, nextShow, nextSession, reservations,
                   nextReservation, nextTicket, inflight>>

\* ShowSession.objects.create(astronomy_show=..., planetarium_dome=...)
CreateSession(a, d) ==
    /\ Idle
    /\ nextSession <= MaxSessions
    /\ a \in shows
    /\ d \in DOMAIN domes
    /\ sessions' = Put(sessions, nextSession, [astronomy_show |-> a, planetarium_dome |-> d])
    /\ nextSession' = nextSession + 1
    /\ lastOp' = [op |-> "create_session"]
    /\ UNCHANGED <<domes, nextDome, shows, nextShow, reservations,
                   nextReservation, tickets, nextTicket, inflight>>

\* session.planetarium_dome = ...; session.save()
UpdateSession(s, d) ==
    /\ Idle
    /\ s \in DOMAIN sessions
    /\ d \in DOMAIN domes
    /\ d # sessions[s].planetarium_dome
    /\ sessions' = Put(sessions, s, [sessions[s] EXCEPT !.planetarium_dome = d])
    /\ lastOp' = [op |-> "update_session"]
    /\ UNCHANGED <<domes, nextDome, shows, nextShow, nextSession, reservations,
                   nextReservation, tickets, nextTicket, inflight>>

\* session.delete(): its tickets go with it
DeleteSession(s) ==
    /\ Idle
    /\ s \in DOMAIN sessions
    /\ sessions' = Drop(sessions, {s})
    /\ tickets' = Drop(tickets, cascade({s}, {}))
    /\ lastOp' = [op |-> "delete_session", id |-> s]
    /\ UNCHANGED <<domes, nextDome, shows, nextShow, nextSession, reservations,
                   nextReservation, nextTicket, inflight>>

\* Reservation.objects.create(user=...)
CreateReservation ==
    /\ Idle
    /\ nextReservation <= MaxReservations
    /\ reservations' = reservations \cup {nextReservation}
    /\ nextReservation' = nextReservation + 1
    /\ lastOp' = [op |-> "create_reservation"]
    /\ UNCHANGED <<domes, nextDome, shows, nextShow, sessions, nextSession,
                   tickets, nextTicket, inflight>>

\* reservation.delete(): its tickets go with it
DeleteReservation(r) ==
    /\ Idle
    /\ r \in reservations
    /\ reservations' = reservations \ {r}
    /\ tickets' = Drop(tickets, cascade({}, {r}))
    /\ lastOp' = [op |-> "delete_reservation", id |-> r]
    /\ UNCHANGED <<domes, nextDome, shows, nextShow, sessions, nextSession,
                   nextReservation, nextTicket, inflight>>

\* --------------------------------------------------------- ticket operations

\* Ticket.validate_ticket(row, seat, dome, error) called on its own
ValidateTicket(row, seat, d) ==
    /\ Idle
    /\ d \in DOMAIN domes
    /\ lastOp' = [op |-> "validate_ticket", row |-> row, seat |-> seat, dome |-> d,
                  errors |-> validate_ticket(row, seat, domes[d])]
    /\ UNCHANGED <<catalogVars, tickets, nextTicket, inflight>>

\* The instances a request may save: a new ticket, or a stored one with its
\* fields set anew; the session and reservation it names exist.
Instances ==
    [pk : {NoPk} \cup DOMAIN tickets, row : SeatInputs, seat : SeatInputs,
     show_session : DOMAIN sessions, reservation : reservations]

Pending == {c \in Clients : inflight[c] # NoReq}
PendingNew == {c \in Pending : inflight[c].pk = NoPk}

\* super().save(): write the row, the store checking its constraints.
Write(t) ==
    IF unique_constraint(t) /\ foreign_keys(t)
    THEN /\ tickets' = Put(tickets, PkFor(t), Row(t))
         /\ nextTicket' = IF t.pk = NoPk THEN nextTicket + 1 ELSE nextTicket
    ELSE UNCHANGED <<tickets, nextTicket>>

WriteResult(t) == IF unique_constraint(t) /\ foreign_keys(t) THEN "ok" ELSE "IntegrityError"

\* Ticket.save() of one request running alone: full_clean, then the write.
Save(t) ==
    /\ Idle
    /\ t \in Instances
    /\ LET errors == full_clean(t)
       IN  IF errors # {}
           THEN /\ lastOp' = [op |-> "save", t |-> t, result |-> "ValidationError",
                              errors |-> errors]
                /\ UNCHANGED <<tickets, nextTicket>>
           ELSE /\ t.pk = NoPk => nextTicket + Cardinality(PendingNew) <= MaxTickets
                /\ Write(t)
                /\ lastOp' = [op |-> "save", t |-> t, result |-> WriteResult(t),
                              errors |-> {}]
    /\ UNCHANGED <<catalogVars, inflight>>

\* Ticket.save() of a concurrent request, first half: self.full_clean()
SaveClean(c, t) ==
    /\ Idle
    /\ inflight[c] = NoReq
    /\ t \in Instances
    /\ LET errors == full_clean(t)
       IN  IF errors # {}
           THEN /\ lastOp' = [op |-> "full_clean", result |-> "ValidationError",
                              errors |-> errors]
                /\ UNCHANGED inflight
           ELSE /\ t.pk = NoPk => nextTicket + Cardinality(PendingNew) <= MaxTickets
                /\ inflight' = [inflight EXCEPT ![c] = t]
                /\ lastOp' = [op |-> "full_clean", result |-> "ok", errors |-> {}]
    /\ UNCHANGED <<catalogVars, tickets, nextTicket>>

\* Ticket.save() of a concurrent request, second half: super().save(...)
SaveWrite(c) ==
    /\ Idle
    /\ inflight[c] # NoReq
    /\ Write(inflight[c])
    /\ lastOp' = [op |-> "write", result |-> WriteResult(inflight[c])]
    /\ inflight' = [inflight EXCEPT ![c] = NoReq]
    /\ UNCHANGED catalogVars

\* ticket.delete()
DeleteTicket(id) ==
    /\ Idle
    /\ id \in DOMAIN tickets
    /\ tickets' = Drop(tickets, {id})
    /\ lastOp' = [op |-> "delete_ticket", id |-> id]
    /\ UNCHANGED <<catalogVars, nextTicket, inflight>>

\* Dimensions given to a dome where the grid is what matters: at least 1.
GridDims == 1 .. MaxDim

\* Operations on everything but domes.
Records ==
    \/ CreateShow
    \/ \E a \in shows : DeleteShow(a)
    \/ \E a \in shows, d \in DOMAIN domes : CreateSession(a, d)
    \/ \E s \in DOMAIN sessions, d \in DOMAIN domes : UpdateSession(s, d)
    \/ \E s \in DOMAIN sessions : DeleteSession(s)
    \/ CreateReservation
    \/ \E r \in reservations : DeleteReservation(r)
    \/ \E id \in DOMAIN tickets : DeleteTicket(id)
    \/ Return

\* Domes on their own: any dimensions a caller may pass.
NextDome ==
    \/ \E rows \in DimInputs, seats_in_row \in DimInputs : CreateDome(rows, seats_in_row)
    \/ \E d \in DOMAIN domes, rows \in DimInputs, seats_in_row \in DimInputs :
          UpdateDome(d, rows, seats_in_row)
    \/ \E d \in DOMAIN domes : DeleteDome(d)
    \/ \E d \in DOMAIN domes : ReadCapacity(d)
    \/ \E row \in SeatInputs, seat \in SeatInputs, d \in DOMAIN domes :
          ValidateTicket(row, seat, d)
    \/ Return

SpecDome == Init /\ [][NextDome]_vars

\* Booking, requests served one at a time.  Domes have at least one row and
\* one seat; domes of dimension 0 are the matter of SpecDome.
Next ==
    \/ \E rows \in GridDims, seats_in_row \in GridDims : CreateDome(rows, seats_in_row)
    \/ \E d \in DOMAIN domes, rows \in GridDims, seats_in_row \in GridDims :
          UpdateDome(d, rows, seats_in_row)
    \/ \E d \in DOMAIN domes : DeleteDome(d)
    \/ Records
    \/ \E t \in Instances : Save(t)

Spec == Init /\ [][Next]_vars

\* Booking, requests that save tickets concurrently.  Domes are 1 x MaxDim and
\* keep their size: the race is over a seat, whatever the grid around it.
NextConc ==
    \/ CreateDome(1, MaxDim)
    \/ \E d \in DOMAIN domes : DeleteDome(d)
    \/ Records
    \/ \E c \in Clients, t \in Instances : SaveClean(c, t)
    \/ \E c \in Clients : SaveWrite(c)

SpecConc == Init /\ [][NextConc]_vars

\* ------------------------------------------------------------------ claims

\* What the claims say, written without the operators above.
DomeOf(s) == domes[sessions[s].planetarium_dome]
RowOk(t) == 1 <= t.row /\ t.row <= DomeOf(t.show_session).rows
SeatOk(t) == 1 <= t.seat /\ t.seat <= DomeOf(t.show_session).seats_in_row
SameSeat(t, u) == t.show_session = u.show_session /\ t.row = u.row /\ t.seat = u.seat
Taken(t, tk) == \E id \in DOMAIN tk : id # t.pk /\ SameSeat(t, tk[id])
Keep(f, ks) == [x \in ks |-> f[x]]
RangeError(field, dome_attr, count) ==
    [field |-> field, kind |-> "range", dome_attr |-> dome_attr, lo |-> 1, hi |-> count]
UniqueError == [field |-> "__all__", kind |-> "unique"]

\* C1: in every reachable state, whatever the interleaving of ticket
\* creations, re-saves and deletions, no two stored tickets of one show
\* session hold the same (row, seat).
C1_UniqueSeats ==
    \A i \in DOMAIN tickets, j \in DOMAIN tickets :
        i # j => ~SameSeat(tickets[i], tickets[j])

\* C1 witness: two tickets of one session are stored and the store has just
\* refused a write.
C1_Witness ==
    /\ lastOp.op = "write"
    /\ lastOp.result = "IntegrityError"
    /\ \E i \in DOMAIN tickets, j \in DOMAIN tickets :
          i # j /\ tickets[i].show_session = tickets[j].show_session

\* C2: for a dome with rows = R >= 1 and seats_in_row = S >= 1,
\* validate_ticket(row, seat, dome) raises nothing exactly when
\* 1 <= row <= R and 1 <= seat <= S.
C2_RangeExact ==
    lastOp.op = "validate_ticket" =>
        LET dome == domes[lastOp.dome]
        IN  (dome.rows >= 1 /\ dome.seats_in_row >= 1) =>
               ((lastOp.errors = {}) <=>
                  (/\ 1 <= lastOp.row /\ lastOp.row <= dome.rows
                   /\ 1 <= lastOp.seat /\ lastOp.seat <= dome.seats_in_row))

\* C2 witness: row = R + 1 with the seat in range has been rejected.
C2_Witness ==
    /\ lastOp.op = "validate_ticket"
    /\ domes[lastOp.dome].rows >= 1
    /\ lastOp.row = domes[lastOp.dome].rows + 1
    /\ 1 <= lastOp.seat /\ lastOp.seat <= domes[lastOp.dome].seats_in_row
    /\ lastOp.errors # {}

\* C3: of two concurrent creations of the same (show_session, row, seat), at
\* most one passes the uniqueness check of full_clean: the check and the
\* insert are atomic.
C3_CheckAtomic ==
    \A a \in Clients, b \in Clients :
        (a # b /\ inflight[a] # NoReq /\ inflight[b] # NoReq
              /\ inflight[a].pk = NoPk /\ inflight[b].pk = NoPk)
            => ~SameSeat(inflight[a], inflight[b])

\* C4: a save stores the ticket only when its row and seat are in range and
\* its seat is free; a save that fails validation raises ValidationError and
\* leaves the ticket table as it was.
C4_ValidatedOrUntouched ==
    [][lastOp'.op = "save" =>
         LET t == lastOp'.t
             valid == RowOk(t) /\ SeatOk(t) /\ ~Taken(t, tickets)
         IN  /\ lastOp'.result = "ok" => valid
             /\ tickets' # tickets => lastOp'.result = "ok"
             /\ ~valid => /\ lastOp'.result = "ValidationError"
                          /\ lastOp'.errors # {}
                          /\ tickets' = tickets
                          /\ nextTicket' = nextTicket]_vars

\* C4 witness: a save has been refused while tickets are stored.
C4_Witness ==
    /\ lastOp.op = "save"
    /\ lastOp.result = "ValidationError"
    /\ DOMAIN tickets # {}

\* C5: every stored ticket lies inside the grid of the dome of its session,
\* also after domes are updated and sessions are moved to another dome.
C5_TicketsInGrid ==
    \A id \in DOMAIN tickets :
        LET t == tickets[id]
        IN  RowOk(t) /\ SeatOk(t)

C7_FirstFailure ==
    lastOp.op = "save" =>
        LET t == lastOp.t
            dome == DomeOf(t.show_session)
        IN  /\ ~RowOk(t) => lastOp.errors = {RangeError("row", "rows", dome.rows)}
            /\ (RowOk(t) /\ ~SeatOk(t)) =>
                  lastOp.errors = {RangeError("seat", "seats_in_row", dome.seats_in_row)}
            /\ UniqueError \in lastOp.errors => RowOk(t) /\ SeatOk(t)

\* C7 witness: a save with row and seat both out of range has been refused.
C7_Witness ==
    /\ lastOp.op = "save"
    /\ ~RowOk(lastOp.t)
    /\ ~SeatOk(lastOp.t)
    /\ lastOp.result = "ValidationError"

\* C8: reading capacity returns rows * seats_in_row of the dome's current
\* values, whatever updates came before.
C8_CapacityIsProduct ==
    lastOp.op = "capacity" =>
        lastOp.value = domes[lastOp.dome].rows * domes[lastOp.dome].seats_in_row

\* C8 witness: capacity has been read on a dome whose two dimensions differ.
C8_Witness ==
    /\ lastOp.op = "capacity"
    /\ domes[lastOp.dome].rows # domes[lastOp.dome].seats_in_row
    /\ lastOp.value > 0

\* C9: every stored dome has rows >= 1 and seats_in_row >= 1.
C9_DomesPositive ==
    \A d \in DOMAIN domes : domes[d].rows >= 1 /\ domes[d].seats_in_row >= 1

\* C10: a sequential save of a new ticket, in range, is accepted and stored
\* when no stored ticket of the same session holds its (row, seat), whatever
\* other sessions hold; when one does, it is refused with the uniqueness
\* error and nothing is stored.
C10_NoSpuriousRejection ==
    [][(lastOp'.op = "save" /\ lastOp'.t.pk = NoPk
            /\ RowOk(lastOp'.t) /\ SeatOk(lastOp'.t)) =>
         LET t == lastOp'.t
         IN  IF \E id \in DOMAIN tickets : SameSeat(t, tickets[id])
             THEN /\ lastOp'.result = "ValidationError"
                  /\ lastOp'.errors = {UniqueError}
                  /\ tickets' = tickets
             ELSE /\ lastOp'.result = "ok"
                  /\ DOMAIN tickets' = DOMAIN tickets \cup {nextTicket}
                  /\ nextTicket \notin DOMAIN tickets
                  /\ SameSeat(t, tickets'[nextTicket])
                  /\ \A id \in DOMAIN tickets : tickets'[id] = tickets[id]]_vars

\* C10 witness: a new ticket has been accepted while another session holds a
\* ticket with the same row and seat.
C10_Witness ==
    /\ lastOp.op = "save"
    /\ lastOp.result = "ok"
    /\ lastOp.t.pk = NoPk
    /\ \E id \in DOMAIN tickets :
          /\ tickets[id].show_session # lastOp.t.show_session
          /\ tickets[id].row = lastOp.t.row
          /\ tickets[id].seat = lastOp.t.seat

====
